---- MODULE Spec2Model ----
(***************************************************************************)
(* Model of the AI Creative Suite front end: the generateVideo             *)
(* submit / poll / download pipeline and generateImageFromPrompt of        *)
(* services/geminiService, the batch fan-out handlers of                   *)
(* components/IdeaGenerator, the VideoCreator, the ImageGenerator with its *)
(* persisted history, the StoryCreator with its audio playback, the PCM    *)
(* decoder of utils/audioUtils, and the App tab switch that mounts and     *)
(* unmounts the components.                                                *)
(***************************************************************************)
EXTENDS Integers, Sequences, FiniteSets, TLC

VARIABLES
    envKey,      \* process.env.API_KEY, "" when absent
    aistudio,    \* whether window.aistudio is defined yet
    vc,          \* the generateVideo call started by VideoCreator.handleGenerate
    activeTab,   \* App.activeTab
    imagePrompt, \* App.imagePrompt
    videoPrompt, \* App.videoPrompt
    mounts,      \* number of IdeaGenerator instances mounted so far
    cur,         \* id of the mounted IdeaGenerator instance, 0 when none
    inst,        \* per IdeaGenerator instance: React state and running handlers
    video,       \* the VideoCreator: React state and running handlers
    image,       \* the ImageGenerator: React state and running handlers
    storage,     \* localStorage item 'imageGenHistory'
    story,       \* the StoryCreator: React state, refs, sources, handlers
    pcm          \* a decodeAudioData call: its arguments and its result

vars == <<envKey, aistudio, vc, activeTab, imagePrompt, videoPrompt,
          mounts, cur, inst, video, image, storage, story, pcm>>

appVars == <<activeTab, imagePrompt, videoPrompt, mounts, cur, inst>>

panelVars == <<video, image, storage, story, pcm>>

\* what a step of an IdeaGenerator leaves alone
ideaFrame == <<envKey, aistudio, vc, activeTab, imagePrompt, videoPrompt,
               mounts, cur, video, image, storage, story, pcm>>

(***************************************************************************)
(* Bounds                                                                  *)
(***************************************************************************)
MaxPolls == 2        \* the service reports done by this status query
MaxIdeas == 3        \* longest prompt list generateIdeas returns
MaxMounts == 2       \* IdeaGenerator instances mounted in one run
MaxRelayIdeas == 1   \* longest prompt list in the runs that switch tabs
MaxLeftIdeas == 2    \* longest prompt list of a batch whose tab is left

Keys == {"k1", "k2"}
NoKey == ""
PromptNames == <<"a", "b", "c", "d", "e", "f", "g", "h", "i">>
Prompts == { PromptNames[n] : n \in 1..MaxIdeas }
StatusTexts == {"Forbidden", "Not Found"}
Bodies == {"b1", "b2"}

(***************************************************************************)
(* Errors and locators                                                     *)
(***************************************************************************)
Err(kind, statusText, body) ==
    [kind |-> kind, statusText |-> statusText, body |-> body]

NoErr == Err("none", "", "")
MissingCredential == Err("MissingCredential", "", "")
NoDownloadLink == Err("NoDownloadLink", "", "")
Upstream == Err("Upstream", "", "")
UnknownVideoError == Err("Unknown", "", "")
DownloadFailed(statusText, body) == Err("DownloadFailed", statusText, body)

NoUrl == <<>>
ObjectUrl(p) == <<"blob", p>>
ImageUrl(p) == <<"data:image/jpeg;base64", p>>

(***************************************************************************)
(* Replies of the external service                                         *)
(***************************************************************************)
OpReply(fault, done, hasUri) ==
    [fault |-> fault, done |-> done, hasUri |-> hasUri]

OpReplies ==
    { OpReply("none", FALSE, FALSE), OpReply("none", TRUE, FALSE),
      OpReply("none", TRUE, TRUE),
      OpReply("error", FALSE, FALSE), OpReply("nonError", FALSE, FALSE) }

FetchReply(fault, ok, statusText) ==
    [fault |-> fault, ok |-> ok, statusText |-> statusText]

FetchReplies ==
    { FetchReply("none", TRUE, "OK"), FetchReply("error", FALSE, "") }
    \cup { FetchReply("none", FALSE, s) : s \in StatusTexts }

\* response.text() and response.blob() of a received response complete
BodyReplies == { [body |-> b] : b \in Bodies }

(***************************************************************************)
(* generateVideo                                                           *)
(***************************************************************************)
NoOperation == [done |-> FALSE, hasUri |-> FALSE]
NoResponse == [got |-> FALSE, ok |-> FALSE, statusText |-> ""]

\* The locals of one generateVideo call (prompt, apiKey, the videoAI client's
\* key, operation, response, errorBody), its position, its outcome, and a
\* record of the requests it has sent: how many of each kind, with which
\* keys, under which ambient keys, and how many done=false reports it got.
IdleJob ==
    [pc |-> "idle", prompt |-> "", apiKey |-> NoKey, clientKey |-> NoKey,
     operation |-> NoOperation, response |-> NoResponse, errorBody |-> "",
     error |-> NoErr, url |-> NoUrl,
     submits |-> 0, polls |-> 0, delays |-> 0, fetches |-> 0,
     keysUsed |-> {}, ambient |-> {}, notDone |-> 0]

Settled(j) == j.pc \in {"resolved", "rejected"}
InFlight(j) == j.pc \in {"submit", "delay", "poll", "fetch", "text", "blob"}

\* catch (error) { if (error instanceof Error) throw error; throw new Error(unknown) }
Rethrow(fault) == IF fault = "error" THEN Upstream ELSE UnknownVideoError

RejectSwallowed(j, e) == [j EXCEPT !.pc = "resolved"]

RejectAfterRetry(j, e) ==
    IF j.submits < 2
    THEN [j EXCEPT !.pc = "submit", !.submits = @ + 1]
    ELSE [j EXCEPT !.pc = "rejected", !.error = e]

\* throw: the call is over, nothing in generateVideo catches and tries again
Reject(j, e) == [j EXCEPT !.pc = "rejected", !.error = e]

\* while (!operation.done)
LoopContinuesDoWhile(j, op) == ~op.done \/ j.polls = 0

LoopContinuesCapped(j, op) == ~op.done /\ j.polls < 1

LoopContinues(j, op) == ~op.done

\* operation.response?.generatedVideos?.[0]?.video?.uri
DownloadLinkAssumed(op) == op.done

DownloadLink(op) == op.done /\ op.hasUri

\* the key the status query is sent with: that of the videoAI client
PollCredentialAmbient(j) == envKey

PollCredential(j) == j.clientKey

\* the key appended to the download link
FetchCredential(j) == j.apiKey

\* after `operation` is assigned: the loop test, the link test and the fetch
AfterOperation(j, op) ==
    LET k == [j EXCEPT !.operation = op,
                       !.notDone = IF op.done THEN @ ELSE @ + 1]
    IN  IF LoopContinues(j, op)
        THEN [k EXCEPT !.pc = "delay", !.delays = @ + 1]
        ELSE IF ~DownloadLink(op)
             THEN Reject(k, NoDownloadLink)
             ELSE [k EXCEPT !.pc = "fetch", !.fetches = @ + 1,
                            !.keysUsed = @ \cup {FetchCredential(k)},
                            !.ambient = @ \cup {envKey}]

\* if (!apiKey) throw new Error("API key is not available.")
HasCredentialAlways(key) == TRUE

HasCredential(key) == key # NoKey

\* the synchronous part of the call: capture the key, build the client, submit
CallGenerateVideo(p, key) ==
    IF ~HasCredential(key)
    THEN [IdleJob EXCEPT !.pc = "rejected", !.prompt = p,
                         !.error = MissingCredential]
    ELSE [IdleJob EXCEPT !.pc = "submit", !.prompt = p, !.apiKey = key,
                         !.clientKey = key, !.submits = 1,
                         !.keysUsed = {key}, !.ambient = {key}]

SubmitSettles(j, r) ==
    IF r.fault # "none" THEN Reject(j, Rethrow(r.fault))
    ELSE AfterOperation(j, [done |-> r.done, hasUri |-> r.hasUri])

DelayElapses(j) ==
    [j EXCEPT !.pc = "poll", !.polls = @ + 1,
              !.keysUsed = @ \cup {PollCredential(j)},
              !.ambient = @ \cup {envKey}]

PollSettles(j, r) ==
    IF r.fault # "none" THEN Reject(j, Rethrow(r.fault))
    ELSE AfterOperation(j, [done |-> r.done, hasUri |-> r.hasUri])

\* if (!response.ok)
FetchFailedNever(r) == FALSE

FetchFailed(r) == ~r.ok

FetchSettles(j, r) ==
    IF r.fault # "none" THEN Reject(j, Rethrow(r.fault))
    ELSE LET k == [j EXCEPT !.response = [got |-> TRUE, ok |-> r.ok,
                                          statusText |-> r.statusText]]
         IN  IF FetchFailed(r) THEN [k EXCEPT !.pc = "text"]
                               ELSE [k EXCEPT !.pc = "blob"]

\* await response.text() then throw, or await response.blob() then return
BodySettles(j, r) ==
    IF j.pc = "text"
    THEN Reject([j EXCEPT !.errorBody = r.body],
                DownloadFailed(j.response.statusText, r.body))
    ELSE [j EXCEPT !.pc = "resolved", !.url = ObjectUrl(j.prompt)]

\* the replies the service may give to the job's pending request
OpRepliesFor(j) ==
    { r \in OpReplies : r.fault = "none" /\ ~r.done => j.polls < MaxPolls }

\* the states a running generateVideo call can move to in one step
VideoSteps(j) ==
    CASE j.pc = "submit" -> { SubmitSettles(j, r) : r \in OpRepliesFor(j) }
      [] j.pc = "delay"  -> { DelayElapses(j) }
      [] j.pc = "poll"   -> { PollSettles(j, r) : r \in OpRepliesFor(j) }
      [] j.pc = "fetch"  -> { FetchSettles(j, r) : r \in FetchReplies }
      [] j.pc \in {"text", "blob"} -> { BodySettles(j, r) : r \in BodyReplies }
      [] OTHER -> {}

(***************************************************************************)
(* The host: process.env.API_KEY is replaced when a key is selected        *)
(***************************************************************************)
HostSetsApiKey(k) ==
    /\ k # envKey
    /\ envKey' = k
    /\ UNCHANGED <<aistudio, vc, appVars, panelVars>>

(***************************************************************************)
(* VideoCreator: one generateVideo call at a time                          *)
(***************************************************************************)
VCGenerate(p) ==
    /\ vc.pc = "idle"
    /\ vc' = CallGenerateVideo(p, envKey)
    /\ UNCHANGED <<envKey, aistudio, appVars, panelVars>>

VCVideoStep ==
    /\ InFlight(vc)
    /\ vc' \in VideoSteps(vc)
    /\ UNCHANGED <<envKey, aistudio, appVars, panelVars>>

VCSettled ==
    /\ Settled(vc)
    /\ vc' = IdleJob
    /\ UNCHANGED <<envKey, aistudio, appVars, panelVars>>

(***************************************************************************)
(* generateIdeas and generateImageFromPrompt, as seen by their callers     *)
(***************************************************************************)
\* The prompt lists generateIdeas may return, up to a renaming of the
\* prompts: every list of at most MaxIdeas prompts in which a prompt is
\* either one used earlier in the list or the next unused name.
RECURSIVE IdeaListsOfLen(_)
IdeaListsOfLen(n) ==
    IF n = 0 THEN { <<>> }
    ELSE UNION { { Append(q, PromptNames[c]) :
                     c \in 1..(Cardinality({ q[m] : m \in DOMAIN q }) + 1) } :
                 q \in IdeaListsOfLen(n - 1) }

IdeaLists == UNION { IdeaListsOfLen(n) : n \in 0..MaxIdeas }

IdeasFailed == Err("IdeasFailed", "", "")
NoImageReturned == Err("NoImageReturned", "", "")
UnknownImageError == Err("Unknown", "", "")
\* the TypeError of response.generatedImages[0].image on an empty list
ResponseShapeError == Err("TypeError", "", "")

ImageReplies == {"image", "noBytes", "noImages", "error", "nonError"}

\* the settlement of generateImageFromPrompt(p, ..) for a reply of the service
GenerateImageResult(p, reply) ==
    CASE reply = "image"    -> [ok |-> TRUE, url |-> ImageUrl(p), error |-> NoErr]
      [] reply = "noBytes"  -> [ok |-> FALSE, url |-> NoUrl, error |-> NoImageReturned]
      [] reply = "nonError" -> [ok |-> FALSE, url |-> NoUrl, error |-> UnknownImageError]
      [] reply = "noImages" -> [ok |-> FALSE, url |-> NoUrl, error |-> ResponseShapeError]
      [] OTHER              -> [ok |-> FALSE, url |-> NoUrl, error |-> Upstream]

(***************************************************************************)
(* IdeaGenerator: state of one mounted instance and of its handlers        *)
(***************************************************************************)
Display(prefix, e) == [prefix |-> prefix, err |-> e]
NoDisplay == Display("", NoErr)

NoBatch == [active |-> FALSE, type |-> "", progress |-> 0, total |-> 0]
Batch(type, total) ==
    [active |-> TRUE, type |-> type, progress |-> 0, total |-> total]

NoContent == [p \in Prompts |-> [image |-> NoUrl, video |-> NoUrl]]
NoGenerating == [p \in Prompts |-> [image |-> FALSE, video |-> FALSE]]

NoJobs == [m \in 1..MaxIdeas |-> IdleJob]

\* how far the batch handlers of an instance were when it was unmounted:
\* the item the video batch was at and the image calls still pending
NoSnapshot == [vidIdx |-> 0, imgPending |-> 0]
Snapshot(r) ==
    [vidIdx |-> r.vidIdx,
     imgPending |-> Cardinality({ m \in DOMAIN r.imgCalls :
                                    r.imgCalls[m] = "pending" })]

\* useState initial values, then the locals of the running handlers
NewInstance ==
    [life |-> "unborn",
     isLoading |-> FALSE, error |-> NoDisplay, ideas |-> <<>>,
     isKeyReady |-> FALSE, isCheckingKey |-> TRUE,
     generatedContent |-> NoContent, generatingState |-> NoGenerating,
     batchJob |-> NoBatch,
     checkPc |-> "idle", queries |-> 0, answer |-> "none",
     selectPending |-> FALSE, ideasPending |-> FALSE,
     imgPc |-> "idle", imgIdeas |-> <<>>, imgCalls |-> <<>>, imgHeld |-> {},
     vidPc |-> "idle", vidIdeas |-> <<>>, vidIdx |-> 0,
     currentProgress |-> 0, jobs |-> NoJobs, firstFail |-> 0,
     last |-> "none", atLeave |-> NoSnapshot]

\* the record of the last finished batch is kept until the next handler runs
ForgetLast(r) ==
    [r EXCEPT !.last = "none", !.answer = "none",
              !.imgIdeas = <<>>, !.imgCalls = <<>>,
              !.imgHeld = {}, !.vidIdeas = <<>>, !.vidIdx = 0,
              !.currentProgress = 0, !.firstFail = 0]

UnrenderedCancels(r) ==
    [NewInstance EXCEPT !.life = r.life, !.atLeave = r.atLeave]

\* state updates of an unmounted component are dropped; the locals of its
\* running handlers live on
Unrendered(r) ==
    LET q == [r EXCEPT !.isLoading = FALSE, !.error = NoDisplay,
                       !.ideas = <<>>,
                       !.isKeyReady = FALSE, !.isCheckingKey = TRUE,
                       !.generatedContent = NoContent,
                       !.generatingState = NoGenerating,
                       !.batchJob = NoBatch,
                       !.imgHeld = {}, !.last = "none", !.answer = "none"]
        q1 == IF q.imgPc = "idle"
              THEN [q EXCEPT !.imgIdeas = <<>>, !.imgCalls = <<>>]
              ELSE q
    IN  IF q1.vidPc = "idle"
        THEN [q1 EXCEPT !.vidIdeas = <<>>, !.vidIdx = 0,
                        !.currentProgress = 0, !.firstFail = 0]
        ELSE q1

Commit(i, r) ==
    inst' = [inst EXCEPT ![i] = IF r.life = "mounted" THEN r ELSE Unrendered(r)]

Insts == 1..MaxMounts

\* the main panel is rendered: not the checking loader, not the key panel
PanelShown(r) == r.life = "mounted" /\ ~r.isCheckingKey /\ r.isKeyReady

\* <button onClick={handleGenerate} disabled={isLoading || !!batchJob}>
GenerateEnabled(r) == PanelShown(r) /\ ~(r.isLoading \/ r.batchJob.active)

\* {ideas.length > 0 && ... disabled={!!batchJob}
BatchEnabled(r) == PanelShown(r) /\ Len(r.ideas) > 0 /\ ~r.batchJob.active

(***************************************************************************)
(* checkKey and handleSelectKey                                            *)
(***************************************************************************)
\* if (window.aistudio)
CollaboratorAvailableAlways == TRUE

CollaboratorAvailable == aistudio

\* One run of checkKey up to its await, or up to setTimeout(checkKey, 100).
\* queries counts the hasSelectedApiKey calls of the component instance.
RunCheckKey(r) ==
    IF CollaboratorAvailable
    THEN [r EXCEPT !.isCheckingKey = TRUE, !.checkPc = "query",
                   !.queries = @ + 1]
    ELSE [r EXCEPT !.checkPc = "timer"]

CheckReplies == {"true", "false", "fault"}

\* setIsKeyReady(keyExists), or catch { setIsKeyReady(false) }
KeyReadyAfter(reply) == reply = "true"

\* the rest of checkKey once hasSelectedApiKey has settled; answer keeps the
\* settlement until the next handler of the component runs
CheckKeyDone(r, reply) ==
    [r EXCEPT !.checkPc = "idle", !.answer = reply,
              !.isKeyReady = KeyReadyAfter(reply),
              !.isCheckingKey = FALSE]

HostBecomesAvailable ==
    /\ ~aistudio
    /\ aistudio' = TRUE
    /\ UNCHANGED <<envKey, vc, appVars, panelVars>>

CheckKeyTimer(i) ==
    /\ inst[i].checkPc = "timer"
    /\ Commit(i, RunCheckKey(inst[i]))
    /\ UNCHANGED ideaFrame

CheckKeySettles(i, reply) ==
    /\ inst[i].checkPc = "query"
    /\ Commit(i, CheckKeyDone(inst[i], reply))
    /\ UNCHANGED ideaFrame

HandleSelectKey(i) ==
    /\ inst[i].life = "mounted"
    /\ ~inst[i].isCheckingKey /\ ~inst[i].isKeyReady
    /\ ~inst[i].selectPending
    /\ Commit(i, [inst[i] EXCEPT !.selectPending = TRUE])
    /\ UNCHANGED ideaFrame

SelectKeyResolves(i) ==
    /\ inst[i].selectPending
    /\ Commit(i, [ForgetLast(inst[i]) EXCEPT !.selectPending = FALSE,
                                             !.isKeyReady = TRUE,
                                             !.error = NoDisplay])
    /\ UNCHANGED ideaFrame

(***************************************************************************)
(* handleGenerate                                                          *)
(***************************************************************************)
HandleGenerate(i) ==
    /\ GenerateEnabled(inst[i])
    /\ Commit(i, [ForgetLast(inst[i]) EXCEPT
                      !.isLoading = TRUE, !.error = NoDisplay,
                      !.ideas = <<>>,
                      !.generatedContent = NoContent,
                      !.generatingState = NoGenerating,
                      !.batchJob = NoBatch,
                      !.ideasPending = TRUE])
    /\ UNCHANGED ideaFrame

IdeasSettle(i, ok, list) ==
    /\ inst[i].ideasPending
    /\ Commit(i, IF ok
                 THEN [inst[i] EXCEPT !.ideasPending = FALSE,
                                      !.ideas = list, !.isLoading = FALSE]
                 ELSE [inst[i] EXCEPT !.ideasPending = FALSE,
                                      !.error = Display("idea.error.apiFail",
                                                        IdeasFailed),
                                      !.isLoading = FALSE])
    /\ UNCHANGED ideaFrame

(***************************************************************************)
(* handleGenerateAllImages                                                 *)
(***************************************************************************)
Range(q) == { q[m] : m \in DOMAIN q }

\* await Promise.all(imagePromises): every chained promise has settled
AnySettled(calls) == \E m \in DOMAIN calls : calls[m] # "pending"

AllSettled(calls) == \A m \in DOMAIN calls : calls[m] # "pending"

\* .then(imageUrl => setGeneratedContent(..)).catch(err => console.error(..))
ImageSlotAfterCleared(slot, res) == IF res.ok THEN res.url ELSE NoUrl

ImageSlotAfter(slot, res) == IF res.ok THEN res.url ELSE slot

\* setBatchJob(prev => prev ? { ...prev, progress: prev.progress + 1 } : null)
ProgressAfterSettleTwice(b) ==
    IF b.active THEN [b EXCEPT !.progress = @ + 2] ELSE b

ProgressAfterSettle(b) ==
    IF b.active THEN [b EXCEPT !.progress = @ + 1] ELSE b

\* if (!isKeyReady) { setError(t('idea.error.apiKey')); return; }
NotReadyIgnored(r) == FALSE

NotReady(r) == ~r.isKeyReady

\* one call of handleGenerateAllImages, up to its await
GenerateAllImages(r) ==
    LET flagged == [p \in Prompts |->
                      IF p \in Range(r.ideas)
                      THEN [image |-> TRUE,
                            video |-> r.generatingState[p].video]
                      ELSE [image |-> FALSE, video |-> FALSE]]
    IN  IF NotReady(r)
        THEN [ForgetLast(r) EXCEPT
                 !.error = Display("idea.error.apiKey", NoErr)]
        ELSE [ForgetLast(r) EXCEPT
                 !.error = NoDisplay,
                 !.batchJob = Batch("images", Len(r.ideas)),
                 !.generatingState = flagged,
                 !.imgPc = "awaiting",
                 !.imgIdeas = r.ideas,
                 !.imgCalls = [m \in 1..Len(r.ideas) |-> "pending"],
                 !.imgHeld = { p \in Range(r.ideas) :
                                 r.generatedContent[p].image # NoUrl }]

\* the generate-all-images button is pressed
HandleGenerateAllImages(i) ==
    /\ BatchEnabled(inst[i])
    /\ Commit(i, GenerateAllImages(inst[i]))
    /\ UNCHANGED ideaFrame

ImageSettles(i, m, reply) ==
    LET r == inst[i]
        p == r.imgIdeas[m]
        res == GenerateImageResult(p, reply)
    IN  /\ m \in DOMAIN r.imgCalls
        /\ r.imgCalls[m] = "pending"
        /\ Commit(i, [r EXCEPT
                 !.generatedContent[p].image = ImageSlotAfter(@, res),
                 !.batchJob = ProgressAfterSettle(@),
                 !.generatingState[p].image = FALSE,
                 !.imgCalls[m] = IF res.ok THEN "ok" ELSE "failed"])
        /\ UNCHANGED ideaFrame

ImageBatchCompletes(i) ==
    /\ inst[i].imgPc = "awaiting"
    /\ AllSettled(inst[i].imgCalls)
    /\ Commit(i, [inst[i] EXCEPT !.batchJob = NoBatch, !.imgPc = "idle",
                                 !.last = "images"])
    /\ UNCHANGED ideaFrame

(***************************************************************************)
(* handleGenerateAllVideos                                                 *)
(***************************************************************************)
\* const videoUrl = await generateVideo(..): resumes when the call settled
AwaitResumesEarly(j) == TRUE

AwaitResumes(j) == Settled(j)

\* catch (err) { ...; break; }
BreaksOnFailureNever(failed) == FALSE

BreaksOnFailure(failed) == failed

FlagKeptOnFailure(failed) == failed

\* finally { .. setGeneratingState(prev => ({..prev, [idea]: {.., video: false}})) }
FlagAfterItem(failed) == FALSE

\* finally { currentProgress++; setBatchJob(prev => prev ? {..} : null); .. }
ProgressAfterItem(b, progress) ==
    IF b.active THEN [b EXCEPT !.progress = progress] ELSE b

\* The for loop of handleGenerateAllVideos from the top of iteration m:
\* StartItem runs the body up to the await, AfterAwait the rest of the body
\* (try / catch / finally) and then the next iteration or the loop exit.  A
\* call that is already settled when awaited is resumed in the same step.
RECURSIVE StartItem(_, _), AfterAwait(_)
StartItem(r, m) ==
    LET p == r.vidIdeas[m]
        q == [r EXCEPT !.vidIdx = m, !.vidPc = "awaiting",
                       !.generatingState[p].video = TRUE,
                       !.jobs[m] = CallGenerateVideo(p, envKey)]
    IN  IF AwaitResumes(q.jobs[m]) THEN AfterAwait(q) ELSE q

AfterAwait(r) ==
    LET m == r.vidIdx
        j == r.jobs[m]
        p == r.vidIdeas[m]
        failed == j.pc = "rejected"
        progress == r.currentProgress + 1
        q == [r EXCEPT
                 !.generatedContent[p].video = IF failed THEN @ ELSE j.url,
                 !.error = IF failed
                           THEN Display("video.error.apiFail", j.error)
                           ELSE @,
                 !.currentProgress = progress,
                 !.batchJob = ProgressAfterItem(@, progress),
                 !.generatingState[p].video = FlagAfterItem(failed),
                 !.jobs[m] = IF Settled(j) THEN IdleJob ELSE j,
                 !.firstFail = IF failed /\ @ = 0 THEN m ELSE @]
    IN  IF BreaksOnFailure(failed) \/ m = Len(r.vidIdeas)
        THEN [q EXCEPT !.vidPc = "clearing"]
        ELSE StartItem(q, m + 1)

\* one call of handleGenerateAllVideos, up to its first await
GenerateAllVideos(r) ==
    LET started == [ForgetLast(r) EXCEPT
                       !.error = NoDisplay,
                       !.batchJob = Batch("videos", Len(r.ideas)),
                       !.vidIdeas = r.ideas, !.currentProgress = 0,
                       !.firstFail = 0]
    IN  IF NotReady(r)
        THEN [ForgetLast(r) EXCEPT
                 !.error = Display("idea.error.apiKey", NoErr)]
        ELSE IF Len(r.ideas) = 0
             THEN [started EXCEPT !.vidPc = "clearing"]
             ELSE StartItem(started, 1)

\* the generate-all-videos button is pressed
HandleGenerateAllVideos(i) ==
    /\ BatchEnabled(inst[i])
    /\ Commit(i, GenerateAllVideos(inst[i]))
    /\ UNCHANGED ideaFrame

\* a step of the generateVideo call of item m; when it settles the call the
\* handler awaiting it resumes
BatchVideoStep(i, m) ==
    /\ InFlight(inst[i].jobs[m])
    /\ \E k \in VideoSteps(inst[i].jobs[m]) :
          LET q == [inst[i] EXCEPT !.jobs[m] = k]
          IN  Commit(i, IF /\ q.vidPc = "awaiting"
                           /\ q.vidIdx = m
                           /\ AwaitResumes(k)
                        THEN AfterAwait(q)
                        ELSE q)
    /\ UNCHANGED ideaFrame

\* setBatchJob(null) after the loop
VideoBatchClears(i) ==
    /\ inst[i].vidPc = "clearing"
    /\ Commit(i, [inst[i] EXCEPT !.batchJob = NoBatch, !.vidPc = "idle",
                                 !.last = "videos"])
    /\ UNCHANGED ideaFrame

(***************************************************************************)
(* VideoCreator: state of the mounted instance and of its handlers         *)
(***************************************************************************)
\* useState initial values, then the position of the running handlers; the
\* state of an instance is discarded when it is unmounted
NewVideoCreator ==
    [life |-> "unmounted",
     isKeyReady |-> FALSE, isCheckingKey |-> TRUE,
     prompt |-> "", imageFile |-> FALSE,
     isLoading |-> FALSE, error |-> NoDisplay, videoUrl |-> NoUrl,
     checkPc |-> "idle", queries |-> 0, answer |-> "none",
     selectPending |-> FALSE, genPc |-> "idle"]

\* useEffect(() => { if (initialPrompt) setPrompt(initialPrompt) })
InitialPromptEffect(r, initialPrompt) ==
    IF initialPrompt # "" THEN [r EXCEPT !.prompt = initialPrompt] ELSE r

\* the first render of a VideoCreator and its mount effects
MountVideoCreator(initialPrompt) ==
    RunCheckKey(InitialPromptEffect([NewVideoCreator EXCEPT !.life = "mounted"],
                                    initialPrompt))

\* the messages an upstream failure may carry, as the catch blocks tell them
\* apart: a quota message, a "Requested entity was not found" or "billed
\* users" message, or neither.  The messages generateVideo and
\* generateImageFromPrompt make themselves hold none of those texts.
ErrorClasses(e) ==
    IF e.kind \in {"Upstream", "DownloadFailed"}
    THEN {"quota", "notFound", "billed", "other"}
    ELSE {"other"}

FileReadError == Err("Unknown", "", "")

VideoCheckKeyTimer ==
    /\ video.life = "mounted"
    /\ video.checkPc = "timer"
    /\ video' = RunCheckKey(video)
    /\ UNCHANGED <<envKey, aistudio, vc, appVars, image, storage,
                   story, pcm>>

VideoCheckKeySettles(reply) ==
    /\ video.life = "mounted"
    /\ video.checkPc = "query"
    /\ video' = CheckKeyDone(video, reply)
    /\ UNCHANGED <<envKey, aistudio, vc, appVars, image, storage,
                   story, pcm>>

\* the key panel is rendered: its button calls handleSelectKey
KeyPanelShown(r) == r.life = "mounted" /\ ~r.isCheckingKey /\ ~r.isKeyReady

VideoHandleSelectKey ==
    /\ KeyPanelShown(video)
    /\ ~video.selectPending
    /\ video' = [video EXCEPT !.selectPending = TRUE, !.answer = "none"]
    /\ UNCHANGED <<envKey, aistudio, vc, appVars, image, storage,
                   story, pcm>>

\* await window.aistudio.openSelectKey(); setIsKeyReady(true);
VideoSelectKeyResolves ==
    /\ video.life = "mounted"
    /\ video.selectPending
    /\ video' = [video EXCEPT !.selectPending = FALSE, !.isKeyReady = TRUE]
    /\ UNCHANGED <<envKey, aistudio, vc, appVars, image, storage,
                   story, pcm>>

\* onChange={(e) => setPrompt(e.target.value)}
VideoSetPrompt(p) ==
    /\ PanelShown(video)
    /\ p # video.prompt
    /\ video' = [video EXCEPT !.prompt = p, !.answer = "none"]
    /\ UNCHANGED <<envKey, aistudio, vc, appVars, image, storage,
                   story, pcm>>

\* handleImageChange
VideoHandleImageChange(f) ==
    /\ PanelShown(video)
    /\ f # video.imageFile
    /\ video' = [video EXCEPT !.imageFile = f, !.answer = "none"]
    /\ UNCHANGED <<envKey, aistudio, vc, appVars, image, storage,
                   story, pcm>>

\* catch (err) { .. } finally { setIsLoading(false) } of handleGenerate
VideoCatch(r, e, class) ==
    CASE class = "quota" ->
            [r EXCEPT !.error = Display("video.error.quotaExceeded", NoErr),
                      !.isLoading = FALSE, !.genPc = "idle"]
      [] class = "notFound" ->
            [r EXCEPT !.error = Display("video.error.invalidKey", NoErr),
                      !.isKeyReady = FALSE,
                      !.isLoading = FALSE, !.genPc = "idle"]
      [] OTHER ->
            [r EXCEPT !.error = Display("video.error.apiFail", e),
                      !.isLoading = FALSE, !.genPc = "idle"]

\* handleGenerate from the settlement of generateVideo on
VideoAfterAwait(r, j, class) ==
    IF j.pc = "rejected"
    THEN VideoCatch(r, j.error, class)
    ELSE [r EXCEPT !.videoUrl = j.url, !.isLoading = FALSE, !.genPc = "idle"]

\* handleGenerate from the generateVideo call on: the call is made with the
\* key of the moment, and a call that fails at once is caught at once
VideoCallsGenerateVideo(r) ==
    LET j == CallGenerateVideo(r.prompt, envKey)
    IN  IF Settled(j)
        THEN /\ \E class \in ErrorClasses(j.error) :
                    video' = VideoAfterAwait(r, j, class)
             /\ UNCHANGED vc
        ELSE /\ video' = [r EXCEPT !.genPc = "awaiting"]
             /\ vc' = j

\* The generate button is pressed.  One generateVideo call is followed at a
\* time: the button is pressed when the call of an instance that was
\* unmounted, if there is one, is over.
VideoHandleGenerate ==
    /\ PanelShown(video)
    /\ ~video.isLoading
    /\ vc.pc = "idle"
    /\ IF video.prompt = "" /\ ~video.imageFile
       THEN /\ video' = [video EXCEPT
                            !.error = Display("video.error.noPromptOrImage",
                                              NoErr),
                            !.answer = "none"]
            /\ UNCHANGED vc
       ELSE LET r == [video EXCEPT !.isLoading = TRUE, !.error = NoDisplay,
                                   !.videoUrl = NoUrl, !.answer = "none"]
            IN  IF video.imageFile
                THEN /\ video' = [r EXCEPT !.genPc = "reading"]
                     /\ UNCHANGED vc
                ELSE VideoCallsGenerateVideo(r)
    /\ UNCHANGED <<envKey, aistudio, appVars, image, storage,
                   story, pcm>>

\* base64Image = await fileToBase64(imageFile)
VideoFileRead(ok) ==
    /\ video.life = "mounted"
    /\ video.genPc = "reading"
    /\ IF ok
       THEN VideoCallsGenerateVideo(video)
       ELSE /\ video' = VideoCatch(video, FileReadError, "other")
            /\ UNCHANGED vc
    /\ UNCHANGED <<envKey, aistudio, appVars, image, storage,
                   story, pcm>>

\* a step of the generateVideo call; when it settles the call, the handler
\* awaiting it resumes, and a call nobody awaits any more is dropped
VideoCallStep ==
    /\ InFlight(vc)
    /\ \E k \in VideoSteps(vc) :
          IF Settled(k)
          THEN /\ vc' = IdleJob
               /\ IF video.genPc = "awaiting"
                  THEN \E class \in ErrorClasses(k.error) :
                          video' = VideoAfterAwait(video, k, class)
                  ELSE UNCHANGED video
          ELSE /\ vc' = k
               /\ UNCHANGED video
    /\ UNCHANGED <<envKey, aistudio, appVars, image, storage,
                   story, pcm>>

(***************************************************************************)
(* ImageGenerator: state of the mounted instance and of its handlers       *)
(***************************************************************************)
MAX_HISTORY_ITEMS == 6

\* one more prompt than the history holds, so that an entry is evicted
MaxImages == MAX_HISTORY_ITEMS + 1

\* the prompts generated in the runs that fill the history
HistoryPrompts == { PromptNames[n] : n \in 1..MaxImages }

\* ImageHistoryItem; the aspect ratio is left out
HistoryEntry(url, p) == [imageUrl |-> url, prompt |-> p]

\* The item 'imageGenHistory' of localStorage: absent, the JSON text of a
\* list of entries, a text JSON.parse rejects, or a text that parses to
\* something else than a list of entries (an object, say).
Absent == [kind |-> "absent", items |-> <<>>]
Stored(items) == [kind |-> "list", items |-> items]
Unparsable == [kind |-> "unparsable", items |-> <<>>]
NotEntries == [kind |-> "other", items |-> <<>>]

\* the history state: a list of entries, or the value a NotEntries text
\* parsed to
HistoryList(items) == [kind |-> "list", items |-> items]
NotAList == [kind |-> "other", items |-> <<>>]
NoHistory == HistoryList(<<>>)

NewImageGenerator ==
    [life |-> "unmounted",
     isKeyReady |-> FALSE, isCheckingKey |-> TRUE,
     prompt |-> "", isLoading |-> FALSE, error |-> NoDisplay,
     imageUrl |-> NoUrl, history |-> NoHistory,
     checkPc |-> "idle", queries |-> 0, answer |-> "none",
     selectPending |-> FALSE, pending |-> FALSE, currentPrompt |-> "",
     inserted |-> "none", reply |-> "none"]

\* try { const storedHistory = localStorage.getItem('imageGenHistory');
\*       if (storedHistory) setHistory(JSON.parse(storedHistory)) } catch ..
ParseFails(s) == s.kind = "unparsable"

LoadedHistory(r, s) ==
    CASE s.kind = "absent" -> r
      [] ParseFails(s)     -> r
      [] s.kind = "list"   -> [r EXCEPT !.history = HistoryList(s.items)]
      [] OTHER             -> [r EXCEPT !.history = NotAList]

\* catch (e) { localStorage.removeItem('imageGenHistory') }
StorageAfterLoad(s) == IF ParseFails(s) THEN Absent ELSE s

\* the first render of an ImageGenerator and its mount effects; the
\* initialPrompt the App passes is not among the props it reads
MountImageGenerator(initialPrompt, s) ==
    RunCheckKey(LoadedHistory([NewImageGenerator EXCEPT !.life = "mounted"],
                              s))

\* prevHistory.filter(item => item.imageUrl !== url)
WithoutLocatorKeepsAll(items, url) == items

WithoutLocator(items, url) ==
    SelectSeq(items, LAMBDA e : e.imageUrl # url)

\* [newHistoryItem, ...rest]
Placed(entry, items) == <<entry>> \o items

\* .slice(0, MAX_HISTORY_ITEMS)
SlicedFromEnd(items) ==
    IF Len(items) <= MAX_HISTORY_ITEMS THEN items
    ELSE SubSeq(items, Len(items) - MAX_HISTORY_ITEMS + 1, Len(items))

Sliced(items) ==
    IF Len(items) <= MAX_HISTORY_ITEMS THEN items
    ELSE SubSeq(items, 1, MAX_HISTORY_ITEMS)

\* updatedHistory
UpdatedHistory(items, entry) ==
    Sliced(Placed(entry, WithoutLocator(items, entry.imageUrl)))

ImageCheckKeyTimer ==
    /\ image.life = "mounted"
    /\ image.checkPc = "timer"
    /\ image' = RunCheckKey(image)
    /\ UNCHANGED <<envKey, aistudio, vc, appVars, video, storage,
                   story, pcm>>

ImageCheckKeySettles(reply) ==
    /\ image.life = "mounted"
    /\ image.checkPc = "query"
    /\ image' = CheckKeyDone(image, reply)
    /\ UNCHANGED <<envKey, aistudio, vc, appVars, video, storage,
                   story, pcm>>

ImageHandleSelectKey ==
    /\ KeyPanelShown(image)
    /\ ~image.selectPending
    /\ image' = [image EXCEPT !.selectPending = TRUE, !.answer = "none"]
    /\ UNCHANGED <<envKey, aistudio, vc, appVars, video, storage,
                   story, pcm>>

\* await window.aistudio.openSelectKey(); setIsKeyReady(true); setError('')
ImageSelectKeyResolves ==
    /\ image.life = "mounted"
    /\ image.selectPending
    /\ image' = [image EXCEPT !.selectPending = FALSE, !.isKeyReady = TRUE,
                              !.error = NoDisplay]
    /\ UNCHANGED <<envKey, aistudio, vc, appVars, video, storage,
                   story, pcm>>

\* onChange={(e) => setPrompt(e.target.value)}
ImageSetPrompt(p) ==
    /\ PanelShown(image)
    /\ p # image.prompt
    /\ image' = [image EXCEPT !.prompt = p, !.answer = "none"]
    /\ UNCHANGED <<envKey, aistudio, vc, appVars, video, storage,
                   story, pcm>>

\* generate(currentPrompt) up to its await
Generate(r, currentPrompt) ==
    IF currentPrompt = ""
    THEN [r EXCEPT !.error = Display("image.error.noPrompt", NoErr),
                   !.answer = "none"]
    ELSE [r EXCEPT !.isLoading = TRUE, !.error = NoDisplay,
                   !.imageUrl = NoUrl, !.answer = "none",
                   !.inserted = "none", !.reply = "none",
                   !.pending = TRUE, !.currentPrompt = currentPrompt]

\* <button onClick={handleGenerate} disabled={isLoading}>
ImageHandleGenerate ==
    /\ PanelShown(image)
    /\ ~image.isLoading
    /\ image' = Generate(image, image.prompt)
    /\ UNCHANGED <<envKey, aistudio, vc, appVars, video, storage,
                   story, pcm>>

\* handleRandomGenerate: setPrompt(randomPrompt); generate(randomPrompt)
ImageHandleRandomGenerate(p) ==
    /\ PanelShown(image)
    /\ ~image.isLoading
    /\ image' = Generate([image EXCEPT !.prompt = p], p)
    /\ UNCHANGED <<envKey, aistudio, vc, appVars, video, storage,
                   story, pcm>>

\* catch (err) { .. } finally { setIsLoading(false) } of generate
ImageCatch(r, e, class) ==
    IF class \in {"billed", "notFound"}
    THEN [r EXCEPT !.error = Display("image.error.billingRequired", NoErr),
                   !.isKeyReady = FALSE,
                   !.isLoading = FALSE, !.pending = FALSE]
    ELSE [r EXCEPT !.error = Display("image.error.apiFail", e),
                   !.isLoading = FALSE, !.pending = FALSE]

\* what the last call was answered with and what its insertion did, kept
\* until the next generate call: the locator
\* was in the list already, or the list was full, or neither
InsertionKind(items, url) ==
    IF \E k \in DOMAIN items : items[k].imageUrl = url THEN "moved"
    ELSE IF Len(items) >= MAX_HISTORY_ITEMS THEN "evicted"
    ELSE "added"

\* generate from the settlement of generateImageFromPrompt on.  The updater
\* of setHistory throws when the history is not a list, and the component
\* tree is then taken down.
ImageGenerateSettles(reply) ==
    LET res == GenerateImageResult(image.currentPrompt, reply)
        entry == HistoryEntry(res.url, image.currentPrompt)
        updated == UpdatedHistory(image.history.items, entry)
        kind == InsertionKind(image.history.items, res.url)
        r == [image EXCEPT !.reply = reply]
    IN  /\ image.life = "mounted"
        /\ image.pending
        /\ IF ~res.ok
           THEN /\ \E class \in ErrorClasses(res.error) :
                      image' = ImageCatch(r, res.error, class)
                /\ UNCHANGED storage
           ELSE IF image.history.kind # "list"
                THEN /\ image' = [r EXCEPT !.life = "crashed",
                                           !.pending = FALSE]
                     /\ UNCHANGED storage
                ELSE /\ image' = [r EXCEPT
                                     !.imageUrl = res.url,
                                     !.history = HistoryList(updated),
                                     !.inserted = kind,
                                     !.isLoading = FALSE, !.pending = FALSE]
                     /\ storage' = Stored(updated)
        /\ UNCHANGED <<envKey, aistudio, vc, appVars, video, story, pcm>>

\* handleHistoryClick
ImageHandleHistoryClick(k) ==
    /\ PanelShown(image)
    /\ image.history.kind = "list"
    /\ k \in DOMAIN image.history.items
    /\ image' = [image EXCEPT !.prompt = image.history.items[k].prompt,
                              !.imageUrl = image.history.items[k].imageUrl,
                              !.error = NoDisplay, !.answer = "none"]
    /\ UNCHANGED <<envKey, aistudio, vc, appVars, video, storage,
                   story, pcm>>

(***************************************************************************)
(* StoryCreator: state of the mounted instance, its refs and its handlers  *)
(***************************************************************************)
MaxSources == 2      \* audio sources started in one run

StoryTexts == {"", "s1"}

StoryFailed == Err("StoryFailed", "", "")
SpeechFailed == Err("SpeechFailed", "", "")
MalformedAudio == Err("MalformedAudio", "", "")

\* useState / useRef initial values, the position of the two async handlers,
\* and the AudioBufferSourceNodes created so far: a source is playing from
\* start() until it ends or is stopped, and its ended event is delivered
\* some time after a stop
NewStoryCreator ==
    [life |-> "unmounted",
     imageFile |-> FALSE, story |-> "",
     isLoadingStory |-> FALSE, isLoadingAudio |-> FALSE,
     error |-> NoDisplay,
     isPlaying |-> FALSE, audioSourceRef |-> 0, audioContextRef |-> FALSE,
     storyPc |-> "idle", audioPc |-> "idle",
     sources |-> [s \in 1..MaxSources |-> "unused"], started |-> 0]

MountStoryCreator == [NewStoryCreator EXCEPT !.life = "mounted"]

\* the StoryCreator is rendered while its tab is the active one
StoryAt(tab) == IF tab = "story" THEN MountStoryCreator ELSE NewStoryCreator

\* handleImageChange(file) with a file
StoryHandleImageChange ==
    /\ story.life = "mounted"
    /\ story' = [story EXCEPT !.imageFile = TRUE, !.story = "",
                              !.error = NoDisplay]
    /\ UNCHANGED <<envKey, aistudio, vc, appVars, video, image, storage, pcm>>

\* audioSourceRef.current?.stop()
StopSource(r) ==
    IF r.audioSourceRef # 0 /\ r.sources[r.audioSourceRef] = "playing"
    THEN [r EXCEPT !.sources[r.audioSourceRef] = "stopped"]
    ELSE r

\* if (isPlaying) { audioSourceRef.current?.stop(); setIsPlaying(false); }
StopIfPlaying(r) ==
    IF r.isPlaying THEN [StopSource(r) EXCEPT !.isPlaying = FALSE] ELSE r

\* <button onClick={handleGenerateStory} disabled={!imageFile || isLoadingStory}>
StoryHandleGenerateStory ==
    /\ story.life = "mounted"
    /\ story.imageFile /\ ~story.isLoadingStory
    /\ story' = StopIfPlaying([story EXCEPT !.isLoadingStory = TRUE,
                                            !.error = NoDisplay,
                                            !.story = "",
                                            !.storyPc = "reading"])
    /\ UNCHANGED <<envKey, aistudio, vc, appVars, video, image, storage, pcm>>

\* catch (err) { setError(..) } finally { setIsLoadingStory(false) }
StoryCatch(r, e) ==
    [r EXCEPT !.error = Display("story.error.apiFail", e),
              !.isLoadingStory = FALSE, !.storyPc = "idle"]

\* const base64Image = await fileToBase64(imageFile)
StoryFileRead(ok) ==
    /\ story.storyPc = "reading"
    /\ story' = IF ok THEN [story EXCEPT !.storyPc = "awaiting"]
                      ELSE StoryCatch(story, FileReadError)
    /\ UNCHANGED <<envKey, aistudio, vc, appVars, video, image, storage, pcm>>

\* const generatedStory = await generateStoryFromImage(..); setStory(..)
StorySettles(ok, text) ==
    /\ story.storyPc = "awaiting"
    /\ story' = IF ok
                THEN [story EXCEPT !.story = text, !.isLoadingStory = FALSE,
                                   !.storyPc = "idle"]
                ELSE StoryCatch(story, StoryFailed)
    /\ UNCHANGED <<envKey, aistudio, vc, appVars, video, image, storage, pcm>>

\* The read-aloud button of StoryDisplay, rendered for a non-empty story
\* with disabled={isLoadingAudio}: it stops the audio when isPlaying, and
\* requests the speech otherwise.
StoryHandleReadAloud ==
    /\ story.life = "mounted"
    /\ story.story # "" /\ ~story.isLoadingAudio
    /\ IF story.isPlaying
       THEN story' = StopIfPlaying(story)
       ELSE /\ story.started < MaxSources
            /\ story' = [story EXCEPT !.isLoadingAudio = TRUE,
                                      !.error = NoDisplay,
                                      !.audioPc = "speech"]
    /\ UNCHANGED <<envKey, aistudio, vc, appVars, video, image, storage, pcm>>

\* catch (err) { setError(..) } finally { setIsLoadingAudio(false) }
AudioCatch(r, e) ==
    [r EXCEPT !.error = Display("story.error.audioFail", e),
              !.isLoadingAudio = FALSE, !.audioPc = "idle"]

\* const base64Audio = await generateSpeechFromText(story); the context is
\* created if there is none; decode; decodeAudioData is awaited
SpeechSettles(ok) ==
    /\ story.audioPc = "speech"
    /\ story' = IF ok
                THEN [story EXCEPT !.audioContextRef = TRUE,
                                   !.audioPc = "decoding"]
                ELSE AudioCatch(story, SpeechFailed)
    /\ UNCHANGED <<envKey, aistudio, vc, appVars, video, image, storage, pcm>>

\* source.start(); setIsPlaying(true); audioSourceRef.current = source;
\* source.onended = ..
StartSource(r) ==
    LET s == r.started + 1
    IN  [r EXCEPT !.sources[s] = "playing", !.started = s,
                  !.isPlaying = TRUE, !.audioSourceRef = s,
                  !.isLoadingAudio = FALSE, !.audioPc = "idle"]

\* const audioBuffer = await decodeAudioData(decodedData, context, 24000, 1)
DecodeSettles(ok) ==
    /\ story.audioPc = "decoding"
    /\ story' = IF ok THEN StartSource(story)
                      ELSE AudioCatch(story, MalformedAudio)
    /\ UNCHANGED <<envKey, aistudio, vc, appVars, video, image, storage, pcm>>

\* source.onended = () => { setIsPlaying(false); audioSourceRef.current = null }
OnEnded(r, s) == [r EXCEPT !.isPlaying = FALSE, !.audioSourceRef = 0]

\* the ended event of source s is delivered: the source has played to its
\* end, or it was stopped earlier
SourceEnded(s) ==
    /\ story.sources[s] \in {"playing", "stopped"}
    /\ story' = OnEnded([story EXCEPT !.sources[s] = "done"], s)
    /\ UNCHANGED <<envKey, aistudio, vc, appVars, video, image, storage, pcm>>

(***************************************************************************)
(* utils/audioUtils: decodeAudioData, the PCM decoder                      *)
(***************************************************************************)
MaxBytes == 8        \* longest byte buffer decoded

ByteValues == {0, 1, 255}
ChannelCounts == {1, 2}

RECURSIVE BuffersOfLen(_)
BuffersOfLen(n) ==
    IF n = 0 THEN { <<>> }
    ELSE { Append(b, v) : b \in BuffersOfLen(n - 1), v \in ByteValues }

Int16BE(bytes, f) ==
    LET u == 256 * bytes[2 * f + 1] + bytes[2 * f + 2]
    IN  IF u >= 32768 THEN u - 65536 ELSE u

\* the signed 16-bit little-endian value of frame f, frames counted from 0
Int16LE(bytes, f) ==
    LET u == bytes[2 * f + 1] + 256 * bytes[2 * f + 2]
    IN  IF u >= 32768 THEN u - 65536 ELSE u

\* a sample is the frame's value divided by 32768, kept as a fraction
Normalised(v) == [num |-> v, den |-> 32768]

NoChannels == <<>>

\* decodeAudioData(data, ctx, sampleRate, numChannels): the frames are
\* interleaved by channel; a byte length that is not a whole number of
\* frames per channel is refused
DecodePCM(bytes, sampleRate, channelCount) ==
    IF Len(bytes) % (2 * channelCount) # 0
    THEN [ok |-> FALSE, error |-> MalformedAudio, channels |-> NoChannels]
    ELSE LET n == Len(bytes) \div (2 * channelCount)
         IN  [ok |-> TRUE, error |-> NoErr,
              channels |->
                 [c \in 1..channelCount |->
                    [k \in 1..n |->
                       Normalised(Int16LE(bytes,
                                          (k - 1) * channelCount + (c - 1)))]]]

NoResult == [ok |-> FALSE, error |-> NoErr, channels |-> NoChannels]

\* no decodeAudioData call is followed
NoDecode ==
    [pc |-> "idle", bytes |-> <<>>, sampleRate |-> 24000, channelCount |-> 1,
     result |-> NoResult]

\* the call returns
DecodeAudioData ==
    /\ pcm.pc = "called"
    /\ pcm' = [pcm EXCEPT !.pc = "done",
                          !.result = DecodePCM(pcm.bytes, pcm.sampleRate,
                                               pcm.channelCount)]
    /\ UNCHANGED <<envKey, aistudio, vc, appVars, video, image, storage, story>>

(***************************************************************************)
(* App: tabs and the prompt relay                                          *)
(***************************************************************************)
Tabs == {"story", "idea", "image", "video"}

\* renderContent with the props of the render: the component of the active
\* tab is the one mounted, a component that leaves the tree loses its state,
\* and nothing is rendered any more once the component tree was taken down
Render(t, initialVideoPrompt, initialImagePrompt) ==
    /\ image.life # "crashed"
    /\ activeTab' = t
    /\ IF t = "idea" /\ activeTab # "idea"
       THEN /\ mounts < MaxMounts
            /\ mounts' = mounts + 1
            /\ cur' = mounts + 1
            /\ inst' = [inst EXCEPT ![mounts + 1] =
                          RunCheckKey([NewInstance EXCEPT !.life = "mounted"])]
       ELSE IF t # "idea" /\ activeTab = "idea"
            THEN /\ cur' = 0
                 /\ inst' = [inst EXCEPT ![cur] =
                               Unrendered([inst[cur] EXCEPT
                                              !.life = "unmounted",
                                              !.atLeave =
                                                 Snapshot(inst[cur])])]
                 /\ UNCHANGED mounts
            ELSE UNCHANGED <<mounts, cur, inst>>
    /\ video' = IF t = "video" /\ activeTab # "video"
                THEN MountVideoCreator(initialVideoPrompt)
                ELSE IF t # "video" THEN NewVideoCreator ELSE video
    /\ IF t = "image" /\ activeTab # "image"
       THEN /\ image' = MountImageGenerator(initialImagePrompt, storage)
            /\ storage' = StorageAfterLoad(storage)
       ELSE /\ image' = IF t # "image" THEN NewImageGenerator ELSE image
            /\ UNCHANGED storage
    /\ story' = IF t = "story" /\ activeTab # "story"
                THEN MountStoryCreator
                ELSE IF t # "story" THEN NewStoryCreator ELSE story

SetActiveTab(t) ==
    /\ t # activeTab
    /\ Render(t, videoPrompt, imagePrompt)
    /\ UNCHANGED <<envKey, aistudio, vc, imagePrompt, videoPrompt, pcm>>

\* the send-to-video button of an idea
SendPromptToVideoCreator(i, m) ==
    /\ PanelShown(inst[i])
    /\ m \in DOMAIN inst[i].ideas
    /\ videoPrompt' = inst[i].ideas[m]
    /\ Render("video", inst[i].ideas[m], imagePrompt)
    /\ UNCHANGED <<envKey, aistudio, vc, imagePrompt, pcm>>

\* the send-to-image button of an idea
SendPromptToImageGenerator(i, m) ==
    /\ PanelShown(inst[i])
    /\ m \in DOMAIN inst[i].ideas
    /\ imagePrompt' = inst[i].ideas[m]
    /\ Render("image", videoPrompt, inst[i].ideas[m])
    /\ UNCHANGED <<envKey, aistudio, vc, videoPrompt, pcm>>

\* ImageGenerator.handleSendToVideo, behind disabled={!prompt || isLoading}
ImageHandleSendToVideo ==
    /\ PanelShown(image)
    /\ image.prompt # "" /\ ~image.isLoading
    /\ videoPrompt' = image.prompt
    /\ Render("video", image.prompt, imagePrompt)
    /\ UNCHANGED <<envKey, aistudio, vc, imagePrompt, pcm>>

(***************************************************************************)
(* Specifications                                                          *)
(***************************************************************************)
Init ==
    /\ envKey \in Keys \cup {NoKey}
    /\ aistudio \in BOOLEAN
    /\ vc = IdleJob
    /\ activeTab = "story"
    /\ imagePrompt = ""
    /\ videoPrompt = ""
    /\ mounts = 0
    /\ cur = 0
    /\ inst = [i \in Insts |-> NewInstance]
    /\ video = NewVideoCreator
    /\ image = NewImageGenerator
    /\ storage = Absent
    /\ story = StoryAt(activeTab)
    /\ pcm = NoDecode

\* the steps of an IdeaGenerator, whether still mounted or not
IdeaSteps(lists, imageReplies) ==
    \/ \E i \in Insts : CheckKeyTimer(i)
    \/ \E i \in Insts, reply \in CheckReplies : CheckKeySettles(i, reply)
    \/ \E i \in Insts : HandleSelectKey(i)
    \/ \E i \in Insts : SelectKeyResolves(i)
    \/ \E i \in Insts : HandleGenerate(i)
    \/ \E i \in Insts, list \in lists : IdeasSettle(i, TRUE, list)
    \/ \E i \in Insts : IdeasSettle(i, FALSE, <<>>)
    \/ \E i \in Insts : HandleGenerateAllImages(i)
    \/ \E i \in Insts, m \in 1..MaxIdeas, reply \in imageReplies :
          ImageSettles(i, m, reply)
    \/ \E i \in Insts : ImageBatchCompletes(i)
    \/ \E i \in Insts : HandleGenerateAllVideos(i)
    \/ \E i \in Insts, m \in 1..MaxIdeas : BatchVideoStep(i, m)
    \/ \E i \in Insts : VideoBatchClears(i)

\* the idea tab is opened from the start tab
OpenIdeaTab ==
    /\ activeTab = "story"
    /\ SetActiveTab("idea")

\* one IdeaGenerator from the moment its tab is opened, while it stays open
Next ==
    \/ \E k \in Keys : HostSetsApiKey(k)
    \/ HostBecomesAvailable
    \/ OpenIdeaTab
    \/ IdeaSteps(IdeaLists, ImageReplies)

\* the host holds a key
InitApp ==
    /\ Init
    /\ envKey = "k1"

Spec == Init /\ [][Next]_vars

\* the App with its tabs and the prompt relay: the IdeaGenerator is unmounted
\* and mounted anew, for prompt lists of at most MaxRelayIdeas prompts
NextApp ==
    \/ HostBecomesAvailable
    \/ \E t \in Tabs : SetActiveTab(t)
    \/ \E i \in Insts, m \in 1..MaxIdeas : SendPromptToVideoCreator(i, m)
    \/ \E i \in Insts, m \in 1..MaxIdeas : SendPromptToImageGenerator(i, m)
    \/ IdeaSteps(UNION { IdeaListsOfLen(n) : n \in 0..MaxRelayIdeas },
                 {"image", "error"})

SpecApp == InitApp /\ [][NextApp]_vars

\* one generateVideo call at a time, from the VideoCreator
NextVideo ==
    \/ \E k \in Keys : HostSetsApiKey(k)
    \/ \E p \in Prompts \cup {""} : VCGenerate(p)
    \/ VCVideoStep
    \/ VCSettled

SpecVideo == Init /\ [][NextVideo]_vars

\* every request of a running call is answered and every delay elapses
SpecVideoLive == Init /\ [][NextVideo]_vars /\ WF_vars(VCVideoStep)

\* the prompts typed into the panels
PanelPrompts == {"", PromptNames[1]}

\* the tab is changed while no generateVideo call is running
ChangeTab(t) ==
    /\ vc.pc = "idle"
    /\ SetActiveTab(t)

\* decodeAudioData called with any byte buffer of at most MaxBytes bytes, for
\* one or two channels
InitPCM ==
    /\ envKey = "k1"
    /\ aistudio = TRUE
    /\ vc = IdleJob
    /\ activeTab = "story"
    /\ imagePrompt = ""
    /\ videoPrompt = ""
    /\ mounts = 0
    /\ cur = 0
    /\ inst = [i \in Insts |-> NewInstance]
    /\ video = NewVideoCreator
    /\ image = NewImageGenerator
    /\ storage = Absent
    /\ story = StoryAt(activeTab)
    /\ \E n \in 0..MaxBytes, ch \in ChannelCounts :
          \E b \in BuffersOfLen(n) :
             pcm = [NoDecode EXCEPT !.pc = "called", !.bytes = b,
                                    !.channelCount = ch]

NextPCM == DecodeAudioData

SpecPCM == InitPCM /\ [][NextPCM]_vars

\* the StoryCreator while its tab stays open
NextStory ==
    \/ StoryHandleImageChange
    \/ StoryHandleGenerateStory
    \/ \E ok \in BOOLEAN : StoryFileRead(ok)
    \/ \E text \in StoryTexts : StorySettles(TRUE, text)
    \/ StorySettles(FALSE, "")
    \/ StoryHandleReadAloud
    \/ \E ok \in BOOLEAN : SpeechSettles(ok)
    \/ \E ok \in BOOLEAN : DecodeSettles(ok)
    \/ \E s \in 1..MaxSources : SourceEnded(s)

InitStory ==
    /\ InitApp
    /\ aistudio = TRUE

SpecStory == InitStory /\ [][NextStory]_vars

\* the three components gated on the key check, each behind its tab
NextPanels ==
    \/ HostBecomesAvailable
    \/ \E t \in Tabs : ChangeTab(t)
    \/ \E i \in Insts : CheckKeyTimer(i)
    \/ \E i \in Insts, reply \in CheckReplies : CheckKeySettles(i, reply)
    \/ \E i \in Insts : HandleSelectKey(i)
    \/ \E i \in Insts : SelectKeyResolves(i)
    \/ VideoCheckKeyTimer
    \/ \E reply \in CheckReplies : VideoCheckKeySettles(reply)
    \/ VideoHandleSelectKey
    \/ VideoSelectKeyResolves
    \/ \E p \in PanelPrompts : VideoSetPrompt(p)
    \/ \E f \in BOOLEAN : VideoHandleImageChange(f)
    \/ VideoHandleGenerate
    \/ \E ok \in BOOLEAN : VideoFileRead(ok)
    \/ VideoCallStep
    \/ ImageCheckKeyTimer
    \/ \E reply \in CheckReplies : ImageCheckKeySettles(reply)
    \/ ImageHandleSelectKey
    \/ ImageSelectKeyResolves
    \/ \E p \in PanelPrompts : ImageSetPrompt(p)
    \/ ImageHandleGenerate
    \/ \E reply \in ImageReplies : ImageGenerateSettles(reply)
    \/ \E k \in 1..MAX_HISTORY_ITEMS : ImageHandleHistoryClick(k)
    \/ ImageHandleSendToVideo

SpecPanels == Init /\ [][NextPanels]_vars

(***************************************************************************)
(* The ImageGenerator and its persisted history                            *)
(***************************************************************************)
\* the entries of the first n prompts, newest first
RECURSIVE EntriesOf(_)
EntriesOf(n) ==
    IF n = 0 THEN <<>>
    ELSE <<HistoryEntry(ImageUrl(PromptNames[n]), PromptNames[n])>>
         \o EntriesOf(n - 1)

\* what the storage may hold when the App starts: nothing, a history the
\* component wrote in an earlier session, or a value it did not write
InitialStorage ==
    {Absent, Unparsable, NotEntries}
    \cup { Stored(EntriesOf(n)) : n \in 0..MAX_HISTORY_ITEMS }

InitHistory ==
    /\ envKey = "k1"
    /\ aistudio = TRUE
    /\ vc = IdleJob
    /\ activeTab = "story"
    /\ imagePrompt = ""
    /\ videoPrompt = ""
    /\ mounts = 0
    /\ cur = 0
    /\ inst = [i \in Insts |-> NewInstance]
    /\ video = NewVideoCreator
    /\ image = NewImageGenerator
    /\ storage \in InitialStorage
    /\ story = StoryAt(activeTab)
    /\ pcm = NoDecode

\* the image tab is opened and left, and images are generated
NextHistory ==
    \/ \E t \in {"story", "image"} : ChangeTab(t)
    \/ \E reply \in CheckReplies : ImageCheckKeySettles(reply)
    \/ ImageHandleSelectKey
    \/ ImageSelectKeyResolves
    \/ \E p \in HistoryPrompts : ImageHandleRandomGenerate(p)
    \/ ImageHandleGenerate
    \/ \E reply \in {"image", "noBytes"} : ImageGenerateSettles(reply)

SpecHistory == InitHistory /\ [][NextHistory]_vars

(***************************************************************************)
(* The batch handlers called on any state of a mounted IdeaGenerator       *)
(***************************************************************************)
\* handleGenerateAllImages is called, whatever is rendered at the time,
\* while no batch handler of the instance is running
CallGenerateAllImages(i) ==
    /\ inst[i].life = "mounted"
    /\ inst[i].imgPc = "idle" /\ inst[i].vidPc = "idle"
    /\ Commit(i, GenerateAllImages(inst[i]))
    /\ UNCHANGED ideaFrame

CallGenerateAllVideos(i) ==
    /\ inst[i].life = "mounted"
    /\ inst[i].imgPc = "idle" /\ inst[i].vidPc = "idle"
    /\ Commit(i, GenerateAllVideos(inst[i]))
    /\ UNCHANGED ideaFrame

\* a mounted IdeaGenerator whose key check is over, with any readiness and
\* any list of ideas
InitHandlers ==
    /\ envKey \in Keys \cup {NoKey}
    /\ aistudio = TRUE
    /\ vc = IdleJob
    /\ activeTab = "idea"
    /\ imagePrompt = ""
    /\ videoPrompt = ""
    /\ mounts = 1
    /\ cur = 1
    /\ \E ready \in BOOLEAN, list \in IdeaLists :
          inst = [i \in Insts |->
                    IF i = 1
                    THEN [NewInstance EXCEPT !.life = "mounted",
                                             !.isCheckingKey = FALSE,
                                             !.isKeyReady = ready,
                                             !.ideas = list]
                    ELSE NewInstance]
    /\ video = NewVideoCreator
    /\ image = NewImageGenerator
    /\ storage = Absent
    /\ story = StoryAt(activeTab)
    /\ pcm = NoDecode

NextHandlers ==
    \/ \E k \in Keys : HostSetsApiKey(k)
    \/ \E i \in Insts : CallGenerateAllImages(i)
    \/ \E i \in Insts : CallGenerateAllVideos(i)
    \/ \E i \in Insts, m \in 1..MaxIdeas, reply \in ImageReplies :
          ImageSettles(i, m, reply)
    \/ \E i \in Insts : ImageBatchCompletes(i)
    \/ \E i \in Insts, m \in 1..MaxIdeas : BatchVideoStep(i, m)
    \/ \E i \in Insts : VideoBatchClears(i)

SpecHandlers == InitHandlers /\ [][NextHandlers]_vars

(***************************************************************************)
(* A batch whose tab is left                                               *)
(***************************************************************************)
\* a mounted IdeaGenerator with a key and a list of distinct ideas
InitLeft ==
    /\ envKey = "k1"
    /\ aistudio = TRUE
    /\ vc = IdleJob
    /\ activeTab = "idea"
    /\ imagePrompt = ""
    /\ videoPrompt = ""
    /\ mounts = 1
    /\ cur = 1
    /\ \E list \in { [m \in 1..n |-> PromptNames[m]] : n \in 1..MaxLeftIdeas } :
          inst = [i \in Insts |->
                    IF i = 1
                    THEN [NewInstance EXCEPT !.life = "mounted",
                                             !.isCheckingKey = FALSE,
                                             !.isKeyReady = TRUE,
                                             !.ideas = list]
                    ELSE NewInstance]
    /\ video = NewVideoCreator
    /\ image = NewImageGenerator
    /\ storage = Absent
    /\ story = StoryAt(activeTab)
    /\ pcm = NoDecode

\* a batch is started, and the user changes tab, sends a prompt to another
\* tab, or selects a key in the IdeaGenerator mounted next
NextLeft ==
    \/ \E t \in Tabs : SetActiveTab(t)
    \/ \E i \in Insts, m \in 1..MaxIdeas : SendPromptToVideoCreator(i, m)
    \/ \E i \in Insts, m \in 1..MaxIdeas : SendPromptToImageGenerator(i, m)
    \/ \E i \in Insts : CheckKeySettles(i, "false")
    \/ \E i \in Insts : HandleSelectKey(i)
    \/ \E i \in Insts : SelectKeyResolves(i)
    \/ \E i \in Insts : HandleGenerateAllImages(i)
    \/ \E i \in Insts, m \in 1..MaxIdeas, reply \in {"image", "error"} :
          ImageSettles(i, m, reply)
    \/ \E i \in Insts : ImageBatchCompletes(i)
    \/ \E i \in Insts : HandleGenerateAllVideos(i)
    \/ \E i \in Insts, m \in 1..MaxIdeas : BatchVideoStep(i, m)
    \/ \E i \in Insts : VideoBatchClears(i)

SpecLeft == InitLeft /\ [][NextLeft]_vars

(***************************************************************************)
(* Properties of the video batch                                           *)
(***************************************************************************)
\* C1: a video batch stops at its first failing item: when the call for the
\* item at position k (counted from 1) is the first to fail, no call is made
\* for a later item, the progress counter is k, the error is displayed, the
\* videos of the items before k are held, and the job is then cleared.
VideoBatchFailFast ==
    \A i \in Insts :
        LET r == inst[i]
            k == r.firstFail
        IN  (r.life = "mounted" /\ k > 0) =>
              /\ r.vidIdx = k
              /\ \A m \in 1..MaxIdeas : r.jobs[m].pc = "idle"
              /\ r.vidPc \in {"clearing", "idle"}
              /\ r.currentProgress = k
              /\ r.error.prefix = "video.error.apiFail"
              /\ r.error.err # NoErr
              /\ \A m \in 1..(k - 1) :
                    r.generatedContent[r.vidIdeas[m]].video
                        = ObjectUrl(r.vidIdeas[m])
              /\ r.vidPc = "clearing" =>
                    r.batchJob.active /\ r.batchJob.progress = k
              /\ r.vidPc = "idle" =>
                    r.batchJob = NoBatch /\ r.last = "videos"

\* a batch over three prompts has failed at the second and has been cleared
VideoBatchFailedAtSecond ==
    \E i \in Insts :
        /\ inst[i].firstFail = 2
        /\ Len(inst[i].vidIdeas) = 3
        /\ inst[i].vidPc = "idle"
        /\ inst[i].last = "videos"

\* C2: in a video batch the pipeline of an item is started only when that of
\* the item before it has settled: at most one generateVideo call of the
\* batch is in flight and at most one prompt is flagged video-generating.
VideoBatchSequential ==
    \A i \in Insts :
        LET r == inst[i]
        IN  /\ Cardinality({ m \in 1..MaxIdeas : r.jobs[m].pc # "idle" }) <= 1
            /\ \A m \in 1..MaxIdeas :
                  r.jobs[m].pc # "idle" =>
                      /\ r.vidPc = "awaiting"
                      /\ m = r.vidIdx
                      /\ r.currentProgress = m - 1
            /\ Cardinality({ p \in Prompts : r.generatingState[p].video }) <= 1

\* the second item is in flight and the first has produced its video
SecondVideoInFlight ==
    \E i \in Insts :
        /\ inst[i].vidIdx = 2
        /\ InFlight(inst[i].jobs[2])
        /\ inst[i].generatingState[inst[i].vidIdeas[2]].video
        /\ inst[i].generatedContent[inst[i].vidIdeas[1]].video # NoUrl

(***************************************************************************)
(* Properties of the image batch                                           *)
(***************************************************************************)
SettledCalls(r) == { m \in DOMAIN r.imgCalls : r.imgCalls[m] # "pending" }

Succeeded(r, p) ==
    \E m \in DOMAIN r.imgCalls : r.imgIdeas[m] = p /\ r.imgCalls[m] = "ok"

Distinct(q) == Cardinality(Range(q)) = Len(q)

\* an image batch at its barrier (every call settled) or just cleared
ImageBatchOver(r) ==
    /\ r.life = "mounted"
    /\ \/ r.imgPc = "awaiting" /\ AllSettled(r.imgCalls)
       \/ r.last = "images"

\* C3 as stated: when an image batch over distinct prompts is over, a prompt
\* holds an image exactly if its call succeeded, and the progress counter
\* has reached the total before the job is cleared.
ImageBatchHoldsExactlySucceeded ==
    \A i \in Insts :
        LET r == inst[i]
        IN  (ImageBatchOver(r) /\ Distinct(r.imgIdeas)) =>
              /\ \A p \in Range(r.imgIdeas) :
                    r.generatedContent[p].image # NoUrl <=> Succeeded(r, p)
              /\ r.imgPc = "awaiting" =>
                    r.batchJob.progress = Len(r.imgIdeas)

\* C3 amended: when an image batch is over, every prompt whose call succeeded
\* holds its image, and a prompt whose calls all failed holds an image only
\* if it held one when the batch started; during the batch the progress
\* counter is the number of settled calls, so it is the total at the barrier.
ImageBatchIsolatesFailures ==
    \A i \in Insts :
        LET r == inst[i]
        IN  /\ (r.life = "mounted" /\ r.imgPc = "awaiting") =>
                  /\ r.batchJob = [active |-> TRUE, type |-> "images",
                                   progress |-> Cardinality(SettledCalls(r)),
                                   total |-> Len(r.imgIdeas)]
                  /\ \A m \in DOMAIN r.imgCalls :
                        r.generatingState[r.imgIdeas[m]].image =>
                            \E n \in DOMAIN r.imgCalls :
                                /\ r.imgIdeas[n] = r.imgIdeas[m]
                                /\ r.imgCalls[n] = "pending"
            /\ ImageBatchOver(r) =>
                  \A p \in Range(r.imgIdeas) :
                     /\ Succeeded(r, p) =>
                            r.generatedContent[p].image = ImageUrl(p)
                     /\ ~Succeeded(r, p) =>
                            (r.generatedContent[p].image # NoUrl
                                <=> p \in r.imgHeld)

\* a batch over three distinct prompts is over: the second failed and holds
\* no image, the first and the third succeeded, the third after the failure
ImageBatchSecondFailed ==
    \E i \in Insts :
        /\ ImageBatchOver(inst[i])
        /\ inst[i].imgPc = "awaiting"
        /\ inst[i].imgIdeas = <<"a", "b", "c">>
        /\ inst[i].imgCalls = <<"ok", "failed", "ok">>
        /\ inst[i].generatedContent["b"].image = NoUrl
        /\ inst[i].batchJob.progress = 3

\* C4: the image batch issues all its calls at once and clears the job only
\* when every call has settled: while a call is pending the handler is
\* still waiting and the job is still set.
ImageBatchBarrier ==
    \A i \in Insts :
        LET r == inst[i]
        IN  /\ r.imgPc = "awaiting" =>
                  DOMAIN r.imgCalls = 1..Len(r.imgIdeas)
            /\ (\E m \in DOMAIN r.imgCalls : r.imgCalls[m] = "pending") =>
                  /\ r.imgPc = "awaiting"
                  /\ r.life = "mounted" =>
                        r.batchJob.active /\ r.batchJob.type = "images"

\* the last call issued has settled while the two before it are pending
ImageCallsOutOfOrder ==
    \E i \in Insts :
        /\ inst[i].imgPc = "awaiting"
        /\ inst[i].imgCalls = <<"pending", "pending", "ok">>
        /\ inst[i].batchJob.active

(***************************************************************************)
(* Properties of the batch job                                             *)
(***************************************************************************)
BatchCallsInFlight(r) ==
    \/ \E m \in DOMAIN r.imgCalls : r.imgCalls[m] = "pending"
    \/ \E m \in 1..MaxIdeas : InFlight(r.jobs[m])

\* C5: at most one batch has generation calls in flight at any time.
OneBatchAtATime ==
    /\ Cardinality({ i \in Insts : BatchCallsInFlight(inst[i]) }) <= 1
    /\ \A i \in Insts :
          ~ /\ \E m \in DOMAIN inst[i].imgCalls : inst[i].imgCalls[m] = "pending"
            /\ \E m \in 1..MaxIdeas : InFlight(inst[i].jobs[m])

\* C6: while a batch job exists its progress is between 0 and its total, and
\* no step lowers the progress of a job that exists before and after it.
BatchProgressBounded ==
    [][ \A i \in Insts :
          /\ inst[i].batchJob.active =>
                /\ 0 <= inst[i].batchJob.progress
                /\ inst[i].batchJob.progress <= inst[i].batchJob.total
          /\ inst'[i].batchJob.active =>
                /\ 0 <= inst'[i].batchJob.progress
                /\ inst'[i].batchJob.progress <= inst'[i].batchJob.total
          /\ (inst[i].batchJob.active /\ inst'[i].batchJob.active) =>
                inst'[i].batchJob.progress >= inst[i].batchJob.progress ]_vars

\* a job whose progress has reached its total of three
BatchProgressReachedTotal ==
    \E i \in Insts :
        /\ inst[i].batchJob.active
        /\ inst[i].batchJob.total = 3
        /\ inst[i].batchJob.progress = 3

(***************************************************************************)
(* Properties of generateVideo                                             *)
(***************************************************************************)
\* C7: generateVideo sends one status query per done=false report, each after
\* one delay, and none once the operation is reported done: the number of
\* queries is the number of done=false reports (zero when the submit result
\* is already done), one less while the delay for the next query runs.
PollCountExact ==
    /\ vc.delays = vc.notDone
    /\ vc.polls = IF vc.pc = "delay" THEN vc.delays - 1 ELSE vc.delays
    /\ vc.operation.done => vc.polls = vc.notDone
    /\ vc.polls > 0 => vc.submits = 1

\* done=false was reported twice, then done=true: two queries were sent
PolledTwiceThenDone ==
    /\ vc.operation.done
    /\ vc.notDone = 2
    /\ vc.polls = 2

\* C8: every request of a generateVideo call (submit, status queries, asset
\* fetch) is sent with the key captured when the call started, whatever the
\* ambient key is by then.
CredentialFixed ==
    vc.submits > 0 =>
        /\ vc.apiKey # NoKey
        /\ vc.keysUsed = {vc.apiKey}

\* a call has polled and fetched after the ambient key was replaced
KeyReplacedWhilePolling ==
    /\ vc.pc = "resolved"
    /\ vc.polls >= 1
    /\ \E k \in vc.ambient : k # vc.apiKey

\* C9: an operation reported done without a result locator makes generateVideo
\* fail with NoDownloadLink, and no asset fetch is made.
NoLinkNoFetch ==
    (vc.operation.done /\ ~vc.operation.hasUri) =>
        /\ vc.pc = "rejected"
        /\ vc.error = NoDownloadLink
        /\ vc.fetches = 0
        /\ ~vc.response.got
        /\ vc.url = NoUrl

\* the operation was reported done without a locator after a status query
DoneWithoutLink ==
    /\ vc.operation.done
    /\ ~vc.operation.hasUri
    /\ vc.polls = 1

NoCredentialNoCall ==
    [][ /\ (vc.pc = "idle" /\ vc'.pc # "idle" /\ envKey = NoKey) =>
              /\ vc'.pc = "rejected"
              /\ vc'.error = MissingCredential
        /\ vc'.error = MissingCredential =>
              /\ vc'.pc = "rejected"
              /\ vc'.submits = 0 /\ vc'.polls = 0 /\ vc'.fetches = 0
              /\ vc'.delays = 0
              /\ vc'.keysUsed = {}
              /\ vc'.operation = NoOperation
              /\ vc'.response = NoResponse
              /\ vc'.url = NoUrl
        /\ (vc.pc = "idle" /\ vc'.pc # "idle" /\ envKey # NoKey) =>
              vc'.submits = 1 ]_vars

\* a call was made without a credential and has failed
CalledWithoutCredential ==
    /\ envKey = NoKey
    /\ vc.pc = "rejected"
    /\ vc.error = MissingCredential
    /\ vc.prompt \in Prompts

\* C12: the poll loop of generateVideo has no bound of its own: every
\* done=false report, whether it answers the submit or a status query and
\* however many queries were sent before, starts a delay, every delay ends
\* in one more status query, and a call whose operation is not reported done
\* settles only when a request faults.
PollLoopUnbounded ==
    [][ /\ (vc.pc \in {"submit", "poll"} /\ vc'.notDone = vc.notDone + 1) =>
              /\ vc'.pc = "delay"
              /\ vc'.delays = vc.delays + 1
              /\ vc'.error = NoErr
        /\ (vc.pc = "delay" /\ vc' # vc) =>
              /\ vc'.pc = "poll"
              /\ vc'.polls = vc.polls + 1
        /\ (InFlight(vc) /\ Settled(vc') /\ ~vc'.operation.done) =>
              /\ vc'.pc = "rejected"
              /\ vc'.error \in {Upstream, UnknownVideoError}
              /\ vc'.notDone = vc.notDone ]_vars

\* every status query so far was answered done=false and one more is sent
PolledAgainAfterNotDone ==
    /\ vc.pc = "poll"
    /\ vc.polls = MaxPolls
    /\ vc.notDone = MaxPolls

(***************************************************************************)
(* Properties of the readiness gate                                        *)
(***************************************************************************)
\* C13: a call of handleGenerateAllImages or handleGenerateAllVideos made
\* while the component is not ready only displays the missing-key error:
\* no batch job is created, no per-item flag is set, no generateImageFromPrompt
\* or generateVideo call is made, and readiness and the held content are
\* left as they were.
BatchRequiresReadiness ==
    [][ \A i \in Insts :
          ( /\ inst[i].life = "mounted"
            /\ ~inst[i].isKeyReady
            /\ inst'[i] # inst[i] ) =>
              /\ inst'[i].error = Display("idea.error.apiKey", NoErr)
              /\ inst'[i].batchJob = NoBatch
              /\ inst'[i].generatingState = inst[i].generatingState
              /\ \A p \in Prompts :
                    /\ ~inst'[i].generatingState[p].image
                    /\ ~inst'[i].generatingState[p].video
              /\ inst'[i].generatedContent = inst[i].generatedContent
              /\ inst'[i].imgPc = "idle" /\ inst'[i].imgCalls = <<>>
              /\ inst'[i].vidPc = "idle" /\ inst'[i].jobs = NoJobs
              /\ inst'[i].ideas = inst[i].ideas
              /\ ~inst'[i].isKeyReady ]_vars

\* a batch handler was called over three ideas while not ready
BatchRefused ==
    \E i \in Insts :
        /\ ~inst[i].isKeyReady
        /\ Len(inst[i].ideas) = 3
        /\ inst[i].error = Display("idea.error.apiKey", NoErr)

\* C14: whenever a generateVideo call has failed with MissingCredential, in
\* the VideoCreator or inside a video batch, and the failure is displayed,
\* the component is not ready any more, so that its key panel is rendered.
MissingCredentialResetsReadiness ==
    /\ (video.life = "mounted" /\ video.error.err = MissingCredential) =>
          ~video.isKeyReady
    /\ \A i \in Insts :
          (inst[i].life = "mounted" /\ inst[i].error.err = MissingCredential)
              => ~inst[i].isKeyReady

(***************************************************************************)
(* Properties of the image history                                         *)
(***************************************************************************)
\* C15: the image history, whenever it is a list, holds at most
\* MAX_HISTORY_ITEMS entries and no two of its entries have the same
\* locator, after any number of successful generations and reloads.
HistoryBoundedAndDistinct ==
    image.history.kind = "list" =>
        LET items == image.history.items
        IN  /\ Len(items) <= MAX_HISTORY_ITEMS
            /\ \A k, l \in DOMAIN items :
                  items[k].imageUrl = items[l].imageUrl => k = l

\* a full history to which a locator it already held was added again
FullHistoryRegenerated ==
    /\ image.history.kind = "list"
    /\ Len(image.history.items) = MAX_HISTORY_ITEMS
    /\ image.inserted = "moved"

\* C16: a successful generation puts its entry at position 0, the entries
\* after it are the earlier entries with other locators in their earlier
\* order, and when those would be more than the capacity allows it is the
\* last of them that is dropped.
HistoryNewestFirst ==
    [][ ( /\ image.pending /\ ~image'.pending
          /\ image'.imageUrl # NoUrl
          /\ image'.life = "mounted" ) =>
            LET old == image.history.items
                new == image'.history.items
                url == image'.imageUrl
                others == SelectSeq(old, LAMBDA e : e.imageUrl # url)
            IN  /\ image'.history.kind = "list"
                /\ Len(new) >= 1
                /\ new[1] = HistoryEntry(url, image.currentPrompt)
                /\ Len(new) = IF Len(others) < MAX_HISTORY_ITEMS
                              THEN Len(others) + 1
                              ELSE MAX_HISTORY_ITEMS
                /\ \A k \in 2..Len(new) : new[k] = others[k - 1]
                /\ storage' = Stored(new) ]_vars

\* a generation with a new locator was added to a full history
OldestEvicted ==
    /\ image.history.kind = "list"
    /\ image.inserted = "evicted"
    /\ Len(image.history.items) = MAX_HISTORY_ITEMS

\* C17: a mounted ImageGenerator never holds a history that is not a list,
\* and once it is mounted the storage holds no value that is unparsable or
\* not a list of entries: such a value was discarded and its key cleared.
MalformedHistoryDiscarded ==
    image.life = "mounted" =>
        /\ image.history.kind = "list"
        /\ storage.kind \in {"absent", "list"}

(***************************************************************************)
(* Properties of the key check                                             *)
(***************************************************************************)
\* C18: in the idea, image and video components a generation is started
\* only while the component is ready, and when select-credential resolves
\* the component is ready and displays no error.
ReadinessGate ==
    [][ /\ (video'.isLoading /\ ~video.isLoading) => PanelShown(video)
        /\ (vc'.pc # "idle" /\ vc.pc = "idle") => PanelShown(video)
        /\ (image'.pending /\ ~image.pending) => PanelShown(image)
        /\ \A i \in Insts :
              \/ inst'[i].ideasPending /\ ~inst[i].ideasPending
              \/ inst'[i].imgPc # "idle" /\ inst[i].imgPc = "idle"
              \/ inst'[i].vidPc # "idle" /\ inst[i].vidPc = "idle"
              => PanelShown(inst[i])
        /\ (video.selectPending /\ ~video'.selectPending
                /\ video'.life = "mounted") =>
              /\ video'.isKeyReady
              /\ video'.error = NoDisplay
        /\ (image.selectPending /\ ~image'.selectPending
                /\ image'.life = "mounted") =>
              /\ image'.isKeyReady
              /\ image'.error = NoDisplay
        /\ \A i \in Insts :
              (inst[i].selectPending /\ ~inst'[i].selectPending
                  /\ inst'[i].life = "mounted") =>
                /\ inst'[i].isKeyReady
                /\ inst'[i].error = NoDisplay ]_vars

\* what C19 says of one step of a component, from state r to state s
KeyCheckStep(r, s) ==
    /\ (s.life = "mounted" /\ ~aistudio') =>
          /\ s.isCheckingKey
          /\ s.checkPc = "timer"
          /\ s.queries = 0
    /\ s.queries <= 1
    /\ s.checkPc = "query" => s.queries = 1 /\ s.answer = "none"
    /\ (s.life = "mounted" /\ s.isCheckingKey) =>
          /\ s.checkPc \in {"timer", "query"}
          /\ ~s.isKeyReady
    /\ (s.life = "mounted" /\ ~s.isCheckingKey) =>
          /\ s.checkPc = "idle"
          /\ s.queries = 1
    /\ (r.checkPc = "timer" /\ s.checkPc # "timer" /\ s.life = "mounted") =>
          /\ aistudio
          /\ s.checkPc = "query"
          /\ s.queries = r.queries + 1
          /\ s.isCheckingKey
    /\ (r.checkPc = "query" /\ s.checkPc # "query" /\ s.life = "mounted") =>
          /\ s.checkPc = "idle"
          /\ s.queries = r.queries
          /\ s.answer \in CheckReplies
          /\ ~s.isCheckingKey
          /\ s.isKeyReady = (s.answer = "true")

\* C19: while window.aistudio is not there a mounted component stays in the
\* checking state with a timer armed and hasSelectedApiKey uncalled; each
\* check calls hasSelectedApiKey once, when a timer finds the collaborator
\* or at once when it is there; and when the call settles the component
\* leaves the checking state, ready for the answer true and not ready for
\* the answer false or a fault.
KeyCheckedOnce ==
    [][ /\ KeyCheckStep(video, video')
        /\ KeyCheckStep(image, image')
        /\ \A i \in Insts : KeyCheckStep(inst[i], inst'[i]) ]_vars

\* the query of the VideoCreator faulted and left it not ready, and an
\* IdeaGenerator mounted before it has made its query too
KeyChecksAnswered ==
    /\ video.life = "mounted"
    /\ video.answer = "fault"
    /\ ~video.isCheckingKey /\ ~video.isKeyReady
    /\ video.queries = 1
    /\ \E i \in Insts : inst[i].queries = 1

(***************************************************************************)
(* Properties of the prompt relay                                          *)
(***************************************************************************)
\* C20: when a prompt is sent to the video or to the image mode, the tab of
\* that mode becomes the active one and the prompt field of its component
\* holds the prompt sent.
PromptRouted ==
    [][ /\ videoPrompt' # videoPrompt =>
              /\ activeTab' = "video"
              /\ video'.life = "mounted"
              /\ video'.prompt = videoPrompt'
        /\ imagePrompt' # imagePrompt =>
              /\ activeTab' = "image"
              /\ image'.life = "mounted"
              /\ image'.prompt = imagePrompt' ]_vars

(***************************************************************************)
(* Properties of the failure policy                                        *)
(***************************************************************************)
\* the requests a generateVideo call has sent so far
Requests(j) == <<j.submits, j.polls, j.fetches>>

RequiredInputsValidated ==
    (vc.pc # "idle" /\ vc.prompt = "") =>
        /\ vc.pc = "rejected"
        /\ Requests(vc) = <<0, 0, 0>>

\* C23: when the response to generateImageFromPrompt holds zero images, or
\* an image without bytes, the call fails with NoImageReturned and no image
\* locator is returned: the ImageGenerator shows that failure and gets no
\* image from the call.
NoImageReturnedOnEmptyResponse ==
    [][ (image.pending /\ image'.reply \in {"noImages", "noBytes"}) =>
            /\ image'.error = Display("image.error.apiFail", NoImageReturned)
            /\ image'.imageUrl = image.imageUrl
            /\ image'.history = image.history ]_vars

\* item m of the image batch of r has failed in the step to s
ImageItemFails(r, s) ==
    \E m \in DOMAIN r.imgCalls \cap DOMAIN s.imgCalls :
        r.imgCalls[m] = "pending" /\ s.imgCalls[m] = "failed"

\* an item of the video batch of r has failed in the step to s
VideoItemFails(r, s) == r.firstFail = 0 /\ s.firstFail # 0

\* C24: every failure of a generation call leaves a non-empty error
\* displayed: when an item of an image batch or of a video batch fails, the
\* IdeaGenerator displays an error from that step on.
FailuresDisplayed ==
    [][ \A i \in Insts :
          (ImageItemFails(inst[i], inst'[i]) \/ VideoItemFails(inst[i], inst'[i]))
              => inst'[i].error # NoDisplay ]_vars

(***************************************************************************)
(* Properties of running batches                                           *)
(***************************************************************************)
\* the user changes tab, sends a prompt to another tab, or selects a key
UserAction ==
    \/ activeTab' # activeTab
    \/ videoPrompt' # videoPrompt
    \/ imagePrompt' # imagePrompt
    \/ \E i \in Insts : inst'[i].selectPending # inst[i].selectPending

VideoBatchLocals(r) ==
    <<r.vidPc, r.vidIdx, r.vidIdeas, r.currentProgress, r.jobs, r.firstFail>>

ImageBatchLocals(r) == <<r.imgPc, r.imgIdeas, r.imgCalls>>

\* C25: nothing the user does stops a started batch or the poll loop of its
\* generateVideo calls: a tab change, a prompt sent to another tab and a
\* key selection leave every running batch handler and every call in flight
\* as they were; a call in flight moves only by its own steps; a video
\* batch leaves its loop only after its last item or its first failure, and
\* an image batch ends only when all its calls have settled.
NoCancellation ==
    [][ \A i \in Insts :
          LET r == inst[i]
              s == inst'[i]
          IN  /\ (UserAction /\ r.vidPc # "idle") =>
                    VideoBatchLocals(s) = VideoBatchLocals(r)
              /\ (UserAction /\ r.imgPc # "idle") =>
                    ImageBatchLocals(s) = ImageBatchLocals(r)
              /\ \A m \in 1..MaxIdeas :
                    InFlight(r.jobs[m]) =>
                        \/ s.jobs[m] = r.jobs[m]
                        \/ s.jobs[m] \in VideoSteps(r.jobs[m])
                        \/ /\ s.jobs[m] = IdleJob
                           /\ \E k \in VideoSteps(r.jobs[m]) : Settled(k)
              /\ (r.vidPc = "awaiting" /\ s.vidPc # "awaiting") =>
                    /\ s.vidPc = "clearing"
                    /\ s.firstFail # 0 \/ s.currentProgress = Len(r.vidIdeas)
              /\ (r.imgPc = "awaiting" /\ s.imgPc # "awaiting") =>
                    AllSettled(r.imgCalls) ]_vars

\* the tab was left while the video batch was at its first item: the batch
\* has since gone on to the second item and to a status query of its call
BatchWentOnAfterLeave ==
    /\ inst[1].life = "unmounted"
    /\ inst[1].atLeave.vidIdx = 1
    /\ inst[1].vidIdx = 2
    /\ inst[1].jobs[2].pc = "poll"

(***************************************************************************)
(* Properties of the PCM decoder                                           *)
(***************************************************************************)
\* C26: for a byte buffer of length 2 * n * channelCount with n >= 1 the
\* decoder returns channelCount sample sequences of length n each, and
\* sample k of channel c (both counted from 0) is the signed 16-bit
\* little-endian value of frame k * channelCount + c, over 32768.
DecodePCMDeinterleaves ==
    LET ch == pcm.channelCount
        n == Len(pcm.bytes) \div (2 * ch)
        lo(f) == pcm.bytes[2 * f + 1]
        hi(f) == pcm.bytes[2 * f + 2]
        value(f) == lo(f) + 256 * hi(f) - (IF hi(f) >= 128 THEN 65536 ELSE 0)
    IN  (pcm.pc = "done" /\ n >= 1 /\ Len(pcm.bytes) = 2 * n * ch) =>
            /\ pcm.result.ok
            /\ Len(pcm.result.channels) = ch
            /\ \A c \in 0..(ch - 1) :
                  /\ Len(pcm.result.channels[c + 1]) = n
                  /\ \A k \in 0..(n - 1) :
                        pcm.result.channels[c + 1][k + 1] =
                            [num |-> value(k * ch + c), den |-> 32768]

\* two channels of two samples each have been decoded from eight bytes
TwoChannelsDecoded ==
    /\ pcm.pc = "done"
    /\ pcm.channelCount = 2
    /\ pcm.bytes = <<1, 0, 0, 1, 255, 255, 255, 0>>
    /\ pcm.result.channels[1][1].num = 1
    /\ pcm.result.channels[2][1].num = 256
    /\ pcm.result.channels[1][2].num = -1
    /\ pcm.result.channels[2][2].num = 255

(***************************************************************************)
(* Properties of the audio playback                                        *)
(***************************************************************************)
Playing(r) == { s \in 1..MaxSources : r.sources[s] = "playing" }

\* C28: under every interleaving of read-aloud, stop and the ended events,
\* isPlaying is true exactly when a started source has neither ended nor
\* been stopped, and then the stored source reference is that source.
AudioConsistent ==
    /\ story.isPlaying <=> Playing(story) # {}
    /\ story.isPlaying => Playing(story) = {story.audioSourceRef}

(***************************************************************************)
(* Liveness of the video poller                                            *)
(***************************************************************************)
Completed(j) == j.pc = "resolved" /\ j.url # NoUrl /\ j.error = NoErr
Failed(j) == j.pc = "rejected" /\ j.error # NoErr /\ j.url = NoUrl

\* C27: when the service reports done after finitely many status queries
\* and every request and the fetch are answered, a generateVideo call
\* eventually settles, and a settled call is either completed with a media
\* handle or failed with an error, never both and never neither.
VideoCallSettles ==
    /\ InFlight(vc) ~> Settled(vc)
    /\ [](Settled(vc) => (Completed(vc) /\ ~Failed(vc))
                           \/ (Failed(vc) /\ ~Completed(vc)))

\* a call has completed after the last done=false report the service gives
CompletedAfterAllPolls ==
    /\ Completed(vc)
    /\ vc.notDone = MaxPolls
    /\ vc.fetches = 1

(***************************************************************************)
(* Properties of the per-item flags                                        *)
(***************************************************************************)
\* C29: whenever no batch job is active no prompt is flagged as
\* image-generating or video-generating, and the step in which an item of a
\* batch settles, the failing item of a video batch included, clears the
\* flag of its prompt (which the same step sets again only when the next
\* item of the video batch has the same prompt).
NoFlagsWithoutBatch ==
    [][ \A i \in Insts :
          LET r == inst[i]
              s == inst'[i]
          IN  /\ ~s.batchJob.active => s.generatingState = NoGenerating
              /\ \A m \in DOMAIN r.imgCalls \cap DOMAIN s.imgCalls :
                    (r.imgCalls[m] = "pending" /\ s.imgCalls[m] # "pending")
                        => ~s.generatingState[r.imgIdeas[m]].image
              /\ (/\ r.vidPc = "awaiting"
                  /\ s.currentProgress > r.currentProgress
                  /\ ~(/\ s.vidPc = "awaiting"
                       /\ s.vidIdeas[s.vidIdx] = r.vidIdeas[r.vidIdx]))
                    => ~s.generatingState[r.vidIdeas[r.vidIdx]].video ]_vars

\* a video batch was ended by the failure of its second item and cleared
AbortedBatchLeftNoFlags ==
    /\ inst[1].last = "videos"
    /\ inst[1].firstFail = 2
    /\ ~inst[1].batchJob.active
    /\ inst[1].generatingState = NoGenerating

(***************************************************************************)
(* Properties of the loading flags                                         *)
(***************************************************************************)
\* C30: the loading flag of each single-item action (ideas, story,
\* read-aloud, image, video) is true only while the call of that action is
\* pending, and once the call has settled the flag is false and the
\* component is still rendered, so that the action can be taken again.
RetryAlwaysPossible ==
    /\ \A i \in Insts :
          inst[i].life = "mounted" =>
              (inst[i].isLoading <=> inst[i].ideasPending)
    /\ video.life = "mounted" =>
          (video.isLoading <=> video.genPc # "idle")
    /\ image.life # "unmounted" =>
          /\ image.isLoading <=> image.pending
          /\ ~image.pending => image.life = "mounted"
    /\ story.life = "mounted" =>
          /\ story.isLoadingStory <=> story.storyPc # "idle"
          /\ story.isLoadingAudio <=> story.audioPc # "idle"

====
